---- MODULE Spec2Model ----
(***************************************************************************)
(* Model of the eth-state-proof-service: one POST endpoint that parses a   *)
(* JSON body into a StateProofRequest, asks the Merkle RPC client for an   *)
(* account proof or an account+storage proof, wraps the serialized proof   *)
(* in a StateProof and answers.  Each request is one connection task; the  *)
(* only await inside the handler is the backend call.                      *)
(***************************************************************************)
EXTENDS Integers, Sequences, FiniteSets, TLC

\* ------------------------------------------------------------------ bounds
\* Number of requests in flight at the same time.
NReq == 2

Reqs == 1..NReq

\* ------------------------------------------------------------------ state
VARIABLES
    st,       \* st[r]: the stage request r is in
    raw,      \* raw[r]: the body received on r's connection
    query,    \* query[r]: the StateProofRequest extracted from the body
    call,     \* call[r]: the backend call r's handler awaits or awaited
    ncalls,   \* ncalls[r]: how many backend calls r's handler has issued
    bres,     \* bres[r]: what the backend call returned
    ser,      \* ser[r]: the result of serde_json::to_vec(&proof)
    resp      \* resp[r]: the response written to r's connection

vars == <<st, raw, query, call, ncalls, bres, ser, resp>>

\* ------------------------------------------------------- program constants
\* root: [0; 32]
RootLen == 32

\* ------------------------------------------------------------ option/result
None == <<>>
Some(x) == <<x>>
IsSome(o) == Len(o) = 1
Unwrap(o) == o[1]

Ok(v) == [ok |-> TRUE, val |-> v]
Err(e) == [ok |-> FALSE, err |-> e]

\* ------------------------------------------------------------- JSON values
\* A field of the request body as it appears on the wire.
JMissing == [t |-> "missing"]
JNull == [t |-> "null"]
JStr(s) == [t |-> "str", s |-> s]
JNum(n) == [t |-> "num", n |-> n]
JFloat == [t |-> "float"]

\* The body of the first example request of examples/client.rs (no key),
\* with short names for the strings and a small height.
BaseBody ==
    [kind |-> "Object", address |-> JStr("0x07ae"), ethereum_url |-> JStr("https://node/tokenA"),
     height |-> JNum(7), key |-> JMissing]

\* Bodies the service accepts: the key omitted, null, empty or a storage
\* slot, the storage request against a second node URL, and a request whose
\* address and key are strings but not hex.
ValidBodies ==
    { [BaseBody EXCEPT !.key = k] : k \in {JMissing, JNull, JStr(""), JStr("0x00")} }
    \cup { [BaseBody EXCEPT !.key = JStr("0x00"), !.ethereum_url = JStr("https://node/tokenB")],
           [BaseBody EXCEPT !.key = JStr("slot"), !.address = JStr("not-hex")] }

\* Bodies the Json extractor rejects.
InvalidBodies ==
    { [BaseBody EXCEPT !.kind = "Syntax"],
      [BaseBody EXCEPT !.address = JMissing],
      [BaseBody EXCEPT !.ethereum_url = JMissing],
      [BaseBody EXCEPT !.height = JMissing],
      [BaseBody EXCEPT !.height = JStr("not-a-number")],
      [BaseBody EXCEPT !.height = JFloat],
      [BaseBody EXCEPT !.height = JNum(-1)],
      [BaseBody EXCEPT !.key = JNum(7)],
      [BaseBody EXCEPT !.key = JStr(""), !.height = JStr("not-a-number")] }

Bodies == ValidBodies \cup InvalidBodies

\* ----------------------------------------------------- request validation
\* Mutant: an address that is not 0x-prefixed hex is rejected.
DeString_HexOnly(name, j) ==
    IF j.t = "missing" THEN Err(<<"missing field", name>>)
    ELSE IF j.t # "str" THEN Err(<<"invalid type", j.t, "expected a string", name>>)
    ELSE IF name = "address" /\ j.s \notin {"0x07ae"}
    THEN Err(<<"invalid value", "expected a 0x-prefixed 20-byte hex string", name>>)
    ELSE Ok(j.s)

\* String::deserialize for a required field.
DeString(name, j) ==
    IF j.t = "missing" THEN Err(<<"missing field", name>>)
    ELSE IF j.t = "str" THEN Ok(j.s)
    ELSE Err(<<"invalid type", j.t, "expected a string", name>>)

\* Mutant: the height is read as a signed integer.
DeU64_Signed(name, j) ==
    IF j.t = "missing" THEN Err(<<"missing field", name>>)
    ELSE IF j.t = "num" THEN Ok(j.n)
    ELSE Err(<<"invalid type", j.t, "expected i64", name>>)

\* u64::deserialize for the height field.
DeU64(name, j) ==
    IF j.t = "missing" THEN Err(<<"missing field", name>>)
    ELSE IF j.t = "num" THEN
        IF j.n >= 0 THEN Ok(j.n)
        ELSE Err(<<"invalid value", "integer", "expected u64", name>>)
    ELSE Err(<<"invalid type", j.t, "expected u64", name>>)

\* Mutant: the empty string is kept as Some("").
deserialize_empty_string_as_none_NoFilter(j) ==
    IF j.t = "missing" THEN Ok(None)
    ELSE IF j.t = "null" THEN Ok(None)
    ELSE IF j.t = "str" THEN Ok(Some(j.s))
    ELSE Err(<<"invalid type", j.t, "expected option", "key">>)

\* Option::<String>::deserialize followed by filter(|s| !s.is_empty());
\* #[serde(default)] gives None when the field is missing.
deserialize_empty_string_as_none(j) ==
    IF j.t = "missing" THEN Ok(None)
    ELSE IF j.t = "null" THEN Ok(None)
    ELSE IF j.t = "str" THEN Ok(IF j.s # "" THEN Some(j.s) ELSE None)
    ELSE Err(<<"invalid type", j.t, "expected option", "key">>)

\* Json<StateProofRequest> extraction: Ok(StateProofRequest) or a
\* JsonRejection.
StateProofRequest(b) ==
    IF b.kind = "Syntax" THEN Err(<<"JsonSyntaxError">>)
    ELSE LET a == DeString("address", b.address)
             u == DeString("ethereum_url", b.ethereum_url)
             h == DeU64("height", b.height)
             k == deserialize_empty_string_as_none(b.key)
         IN IF ~a.ok THEN Err(<<"JsonDataError">> \o a.err)
            ELSE IF ~u.ok THEN Err(<<"JsonDataError">> \o u.err)
            ELSE IF ~h.ok THEN Err(<<"JsonDataError">> \o h.err)
            ELSE IF ~k.ok THEN Err(<<"JsonDataError">> \o k.err)
            ELSE Ok([address |-> a.val, ethereum_url |-> u.val,
                     height |-> h.val, key |-> k.val])

\* ------------------------------------------------------------ the backend
\* Proof data and errors the Merkle RPC client can hand back.  "unenc"
\* stands for a value serde_json cannot encode.
ProofData == {"p1", "p2", "unenc"}
BackendErrors == {"rpc failed"}

\* A transport error of the client, whose text names the URL it was built
\* with (rpc_url), as the errors of HTTP clients do.
TransportError(url) ==
    IF url = "https://node/tokenA"
    THEN "error sending request for url (https://node/tokenA)"
    ELSE "error sending request for url (https://node/tokenB)"

\* The type of the value each backend operation returns.
ResultType(op) ==
    IF op = "get_account_proof" THEN "EthereumAccountProof" ELSE "EthereumCombinedProof"

\* What the awaited call c can return.
BackendResults(c) ==
    { Ok([ty |-> ResultType(c.op), d |-> d]) : d \in ProofData }
    \cup { Err(e) : e \in BackendErrors }
    \cup { Err(TransportError(c.rpc_url)) }

\* Mutant: the combined operation is called on both arms.
BackendCall_AlwaysCombined(q) ==
    [rpc_url |-> q.ethereum_url, op |-> "get_account_and_storage_proof",
     args |-> <<IF IsSome(q.key) THEN Unwrap(q.key) ELSE "", q.address, q.height>>]

\* Mutant: the combined operation gets address and key in the wrong order.
BackendCall_ArgsSwapped(q) ==
    IF IsSome(q.key)
    THEN [rpc_url |-> q.ethereum_url, op |-> "get_account_and_storage_proof",
          args |-> <<q.address, Unwrap(q.key), q.height>>]
    ELSE [rpc_url |-> q.ethereum_url, op |-> "get_account_proof",
          args |-> <<q.address, q.height>>]

\* Mutant: one client, built for the first request, serves every request.
BackendCall_SharedClient(q) ==
    LET url == IF IsSome(query[1]) THEN Unwrap(query[1]).ethereum_url ELSE q.ethereum_url
    IN IF IsSome(q.key)
       THEN [rpc_url |-> url, op |-> "get_account_and_storage_proof",
             args |-> <<Unwrap(q.key), q.address, q.height>>]
       ELSE [rpc_url |-> url, op |-> "get_account_proof",
             args |-> <<q.address, q.height>>]

\* EvmMerkleRpcClient { rpc_url } and the operation chosen by match key.
BackendCall(q) ==
    IF IsSome(q.key)
    THEN [rpc_url |-> q.ethereum_url, op |-> "get_account_and_storage_proof",
          args |-> <<Unwrap(q.key), q.address, q.height>>]
    ELSE [rpc_url |-> q.ethereum_url, op |-> "get_account_proof",
          args |-> <<q.address, q.height>>]

\* EthereumSimpleProof::from_combined_proof
from_combined_proof(c) == [ty |-> "EthereumSimpleProof", d |-> c.d]

\* The EthereumProofType value built from the backend's data.
EthereumProofType(q, data) ==
    IF IsSome(q.key)
    THEN [tag |-> "Simple", data |-> from_combined_proof(data)]
    ELSE [tag |-> "Account", data |-> data]

\* Mutant: the enum is encoded untagged, the variant name is not written.
to_vec_Untagged(proof) ==
    IF proof.data.d = "unenc" THEN Err(<<"serde_json error">>)
    ELSE Ok(<<"{", proof.data.ty, proof.data.d, "}">>)

\* Mutant: the order of the fields written depends on what was serialized
\* before, as the iteration order of a hash map does.
to_vec_Unordered(proof) ==
    IF proof.data.d = "unenc" THEN Err(<<"serde_json error">>)
    ELSE IF Cardinality({r \in Reqs : IsSome(ser[r])}) % 2 = 0
    THEN Ok(<<"{", proof.tag, ":", proof.data.ty, proof.data.d, "}">>)
    ELSE Ok(<<"{", proof.tag, ":", proof.data.d, proof.data.ty, "}">>)

\* serde_json::to_vec of an externally tagged enum value.
to_vec(proof) ==
    IF proof.data.d = "unenc" THEN Err(<<"serde_json error">>)
    ELSE Ok(<<"{", proof.tag, ":", proof.data.ty, proof.data.d, "}">>)

\* serde_json::from_slice of the proof bytes, the inverse a verifier runs.
from_slice(bytes) ==
    IF Len(bytes) = 6 /\ bytes[1] = "{" /\ bytes[3] = ":" /\ bytes[6] = "}"
    THEN Ok([tag |-> bytes[2], data |-> [ty |-> bytes[4], d |-> bytes[5]]])
    ELSE Err(<<"serde_json error">>)

\* Mutant: the proof bytes land in payload and proof stays empty.
StateProof_ProofInPayload(proof_bytes) ==
    [domain |-> "ethereum", root |-> [i \in 1..RootLen |-> 0],
     payload |-> proof_bytes, proof |-> <<>>]

\* StateProof { domain, root, payload, proof }
StateProof(proof_bytes) ==
    [domain |-> "ethereum", root |-> [i \in 1..RootLen |-> 0],
     payload |-> <<>>, proof |-> proof_bytes]

\* ------------------------------------------------------------- responses
\* (StatusCode::BAD_REQUEST, Json(json!({status: 400, error: ...})))
BadRequest(e) ==
    [status |-> 400, content_type |-> "application/json",
     body |-> [status |-> 400, error |-> <<"Invalid request format: ">> \o e]]

\* (StatusCode::INTERNAL_SERVER_ERROR, Json(json!({status: 500, error: ...})))
InternalError(e) ==
    [status |-> 500, content_type |-> "application/json",
     body |-> [status |-> 500, error |-> <<"Error getting state proof: ">> \o e]]

\* Body::from(state_proof): the StateProof on the wire, a JSON object with
\* the fields in declaration order and the byte fields as arrays.
Body_from(sp) ==
    <<"{", "domain", sp.domain, "root", sp.root, "payload", sp.payload,
      "proof", sp.proof, "}">>

\* The inverse a client runs on the body of a 200 response.
StateProof_from_body(bytes) ==
    IF /\ Len(bytes) = 10 /\ bytes[1] = "{" /\ bytes[10] = "}"
       /\ bytes[2] = "domain" /\ bytes[4] = "root"
       /\ bytes[6] = "payload" /\ bytes[8] = "proof"
    THEN Ok([domain |-> bytes[3], root |-> bytes[5], payload |-> bytes[7],
             proof |-> bytes[9]])
    ELSE Err(<<"serde_json error">>)

\* HttpResponse::builder().status(OK).body(Body::from(state_proof))
OkResponse(sp) ==
    [status |-> 200, content_type |-> "none", body |-> Body_from(sp)]

Init ==
    /\ st = [r \in Reqs |-> "Idle"]
    /\ raw = [r \in Reqs |-> None]
    /\ query = [r \in Reqs |-> None]
    /\ call = [r \in Reqs |-> None]
    /\ ncalls = [r \in Reqs |-> 0]
    /\ bres = [r \in Reqs |-> None]
    /\ ser = [r \in Reqs |-> None]
    /\ resp = [r \in Reqs |-> None]

\* axum::serve accepts a connection and routes POST / to handle_state_proof.
Receive(r) ==
    /\ st[r] = "Idle"
    /\ \E b \in Bodies : raw' = [raw EXCEPT ![r] = Some(b)]
    /\ st' = [st EXCEPT ![r] = "Validating"]
    /\ UNCHANGED <<query, call, ncalls, bres, ser, resp>>

\* handle_state_proof, Err(e) arm: the rejection is answered with 400.
HandleInvalid(r) ==
    /\ st[r] = "Validating"
    /\ LET res == StateProofRequest(Unwrap(raw[r]))
       IN /\ ~res.ok
          /\ resp' = [resp EXCEPT ![r] = Some(BadRequest(res.err))]
    /\ st' = [st EXCEPT ![r] = "Invalid"]
    /\ UNCHANGED <<raw, query, call, ncalls, bres, ser>>

\* Mutant: the handler takes a process-wide lock before the backend call
\* and holds it across the await.
HandleValid_Locked(r) ==
    /\ st[r] = "Validating"
    /\ \A r2 \in Reqs \ {r} : st[r2] # "Fetching"
    /\ LET res == StateProofRequest(Unwrap(raw[r]))
       IN /\ res.ok
          /\ query' = [query EXCEPT ![r] = Some(res.val)]
          /\ call' = [call EXCEPT ![r] = Some(BackendCall(res.val))]
    /\ ncalls' = [ncalls EXCEPT ![r] = @ + 1]
    /\ st' = [st EXCEPT ![r] = "Fetching"]
    /\ UNCHANGED <<raw, bres, ser, resp>>

\* handle_state_proof, Ok(payload) arm: get_state_proof_handler calls
\* get_state_proof, which builds the client, issues the backend call chosen
\* by match key and awaits it.
HandleValid(r) ==
    /\ st[r] = "Validating"
    /\ LET res == StateProofRequest(Unwrap(raw[r]))
       IN /\ res.ok
          /\ query' = [query EXCEPT ![r] = Some(res.val)]
          /\ call' = [call EXCEPT ![r] = Some(BackendCall(res.val))]
    /\ ncalls' = [ncalls EXCEPT ![r] = @ + 1]
    /\ st' = [st EXCEPT ![r] = "Fetching"]
    /\ UNCHANGED <<raw, bres, ser, resp>>

\* Mutant: the Some arm returns the backend's error with ? and no map_err.
AfterFetch_NoContext(q, res) ==
    IF res.ok THEN [st |-> "Fetched", resp |-> None]
    ELSE IF IsSome(q.key)
    THEN [st |-> "BackendError", resp |-> Some(InternalError(<<res.err>>))]
    ELSE [st |-> "Panicked", resp |-> None]

\* What get_state_proof does with the awaited backend result: the Some arm
\* maps an error with map_err and returns it with ?, the None arm unwraps.
AfterFetch(q, res) ==
    IF res.ok THEN [st |-> "Fetched", resp |-> None]
    ELSE IF IsSome(q.key)
    THEN [st |-> "BackendError",
          resp |-> Some(InternalError(<<"Failed to get storage proof: ", res.err>>))]
    ELSE [st |-> "Panicked", resp |-> None]

\* Bound on the calls a retrying handler may issue.
MaxCalls == 3

\* Mutant: a failed backend call is issued again.
BackendReturn_Retry(r) ==
    /\ st[r] = "Fetching"
    /\ \E res \in BackendResults(Unwrap(call[r])) :
        /\ bres' = [bres EXCEPT ![r] = Some(res)]
        /\ IF res.ok
           THEN /\ st' = [st EXCEPT ![r] = "Fetched"]
                /\ UNCHANGED ncalls
           ELSE /\ ncalls[r] < MaxCalls
                /\ st' = [st EXCEPT ![r] = "Fetching"]
                /\ ncalls' = [ncalls EXCEPT ![r] = @ + 1]
    /\ UNCHANGED <<raw, query, call, ser, resp>>

\* The awaited backend call completes.
BackendReturn(r) ==
    /\ st[r] = "Fetching"
    /\ \E res \in BackendResults(Unwrap(call[r])) :
        /\ bres' = [bres EXCEPT ![r] = Some(res)]
        /\ st' = [st EXCEPT ![r] = AfterFetch(Unwrap(query[r]), res).st]
        /\ resp' = [resp EXCEPT ![r] = AfterFetch(Unwrap(query[r]), res).resp]
    /\ UNCHANGED <<raw, query, call, ncalls, ser>>

\* Mutant: a serialization error is swallowed and empty proof bytes are sent.
Serialize_IgnoresError(r) ==
    /\ st[r] = "Fetched"
    /\ LET res == to_vec(EthereumProofType(Unwrap(query[r]), Unwrap(bres[r]).val))
       IN /\ ser' = [ser EXCEPT ![r] = Some(res)]
          /\ IF res.ok
             THEN /\ st' = [st EXCEPT ![r] = "Serialized"]
                  /\ UNCHANGED resp
             ELSE /\ st' = [st EXCEPT ![r] = "Responding"]
                  /\ resp' = [resp EXCEPT ![r] = Some(OkResponse(StateProof(<<>>)))]
    /\ UNCHANGED <<raw, query, call, ncalls, bres>>

\* The proof variant is built and handed to serde_json::to_vec; an error is
\* returned with ? and answered with 500 by get_state_proof_handler.
Serialize(r) ==
    /\ st[r] = "Fetched"
    /\ LET res == to_vec(EthereumProofType(Unwrap(query[r]), Unwrap(bres[r]).val))
       IN /\ ser' = [ser EXCEPT ![r] = Some(res)]
          /\ IF res.ok
             THEN /\ st' = [st EXCEPT ![r] = "Serialized"]
                  /\ UNCHANGED resp
             ELSE /\ st' = [st EXCEPT ![r] = "SerializeError"]
                  /\ resp' = [resp EXCEPT ![r] = Some(InternalError(res.err))]
    /\ UNCHANGED <<raw, query, call, ncalls, bres>>

\* Ok(StateProof {..}) is returned and get_state_proof_handler answers 200.
Respond(r) ==
    /\ st[r] = "Serialized"
    /\ resp' = [resp EXCEPT ![r] = Some(OkResponse(StateProof(Unwrap(ser[r]).val)))]
    /\ st' = [st EXCEPT ![r] = "Responding"]
    /\ UNCHANGED <<raw, query, call, ncalls, bres, ser>>

Next ==
    \E r \in Reqs :
        \/ Receive(r)
        \/ HandleInvalid(r)
        \/ HandleValid(r)
        \/ BackendReturn(r)
        \/ Serialize(r)
        \/ Respond(r)

Spec == Init /\ [][Next]_vars

\* The runtime runs every handler that is ready: the steps of the handlers
\* are weakly fair.  Nothing obliges a client to send a request or the node
\* to answer one, and get_state_proof puts no timeout on the awaited call.
HandlerFairness ==
    \A r \in Reqs :
        /\ WF_vars(HandleInvalid(r))
        /\ WF_vars(HandleValid(r))
        /\ WF_vars(Serialize(r))
        /\ WF_vars(Respond(r))

LiveSpec == Init /\ [][Next]_vars /\ HandlerFairness

\* ------------------------------------------------------------ vocabulary
Terminal == {"Invalid", "BackendError", "SerializeError", "Responding", "Panicked"}

TypeOK ==
    \A r \in Reqs :
        /\ st[r] \in {"Idle", "Validating", "Fetching", "Fetched", "Serialized"} \cup Terminal
        /\ ncalls[r] \in 0..1
        /\ Len(raw[r]) <= 1 /\ Len(query[r]) <= 1 /\ Len(resp[r]) <= 1

Past(r) == st[r] \notin {"Idle", "Validating"}

\* The tag a verifier recovers from the proof bytes of a 200 response.
\* The envelope a client decodes from the body of a 200 response.
Envelope(r) == StateProof_from_body(Unwrap(resp[r]).body).val

ProofTag(r) == from_slice(Envelope(r).proof).val.tag

Is200(r) == IsSome(resp[r]) /\ Unwrap(resp[r]).status = 200

\* ---------------------------------------------------------------- claims
\* C1: a valid request whose key is absent invokes exactly the backend
\* account-proof operation with (address, height), never the combined one,
\* and the proof of its envelope carries the tag Account.
C1_AccountPath ==
    \A r \in Reqs :
        (IsSome(query[r]) /\ ~IsSome(Unwrap(query[r]).key)) =>
            /\ IsSome(call[r])
            /\ Unwrap(call[r]).op = "get_account_proof"
            /\ Unwrap(call[r]).args = <<Unwrap(query[r]).address, Unwrap(query[r]).height>>
            /\ ncalls[r] = 1
            /\ Is200(r) => ProofTag(r) = "Account"

C1_Witness ==
    \E r \in Reqs :
        /\ Is200(r)
        /\ Unwrap(raw[r]).key = JMissing
        /\ Unwrap(call[r]).op = "get_account_proof"
        /\ ProofTag(r) = "Account"

\* C2 as stated: a valid request with a non-empty key invokes exactly the
\* combined account+storage-proof operation with (key, address, height) and
\* the proof of its envelope carries the tag Combined.
C2_Original ==
    \A r \in Reqs :
        (IsSome(query[r]) /\ IsSome(Unwrap(query[r]).key)) =>
            /\ IsSome(call[r])
            /\ Unwrap(call[r]).op = "get_account_and_storage_proof"
            /\ Unwrap(call[r]).args =
                <<Unwrap(Unwrap(query[r]).key), Unwrap(query[r]).address, Unwrap(query[r]).height>>
            /\ ncalls[r] = 1
            /\ Is200(r) => ProofTag(r) = "Combined"

\* C2 amended: a valid request with a non-empty key invokes exactly the
\* combined account+storage-proof operation with (key, address, height),
\* never the account-only one, and the proof of its envelope carries the
\* tag Simple (the simple proof converted from the combined backend
\* result), never Account.
C2_CombinedPath ==
    \A r \in Reqs :
        (IsSome(query[r]) /\ IsSome(Unwrap(query[r]).key)) =>
            /\ IsSome(call[r])
            /\ Unwrap(call[r]).op = "get_account_and_storage_proof"
            /\ Unwrap(call[r]).args =
                <<Unwrap(Unwrap(query[r]).key), Unwrap(query[r]).address, Unwrap(query[r]).height>>
            /\ ncalls[r] = 1
            /\ Is200(r) =>
                /\ ProofTag(r) = "Simple"
                /\ from_slice(Envelope(r).proof).val.data.ty = "EthereumSimpleProof"

C2_Witness ==
    \E r \in Reqs :
        /\ Is200(r)
        /\ Unwrap(raw[r]).key = JStr("0x00")
        /\ Unwrap(call[r]).op = "get_account_and_storage_proof"
        /\ ProofTag(r) = "Simple"

\* C3: a backend failure of the account-proof operation (key absent) ends
\* the request with HTTP 500 and a JSON body {status:500, error:<message>}
\* that references the backend failure.
C3_AccountBackendFailure ==
    \A r \in Reqs :
        (/\ IsSome(bres[r]) /\ ~Unwrap(bres[r]).ok
         /\ ~IsSome(Unwrap(query[r]).key)) =>
            /\ IsSome(resp[r])
            /\ Unwrap(resp[r]).status = 500
            /\ Unwrap(resp[r]).content_type = "application/json"
            /\ Unwrap(resp[r]).body.status = 500
            /\ \E i \in DOMAIN Unwrap(resp[r]).body.error :
                Unwrap(resp[r]).body.error[i] = Unwrap(bres[r]).err

\* C4: every request that has ended has exactly one of two outcomes: a 200
\* response with a complete envelope whose proof is correctly tagged, or a
\* 400 or 500 error response.
C4_ResponseOrError ==
    \A r \in Reqs :
        st[r] \in Terminal =>
            /\ IsSome(resp[r])
            /\ \/ /\ Unwrap(resp[r]).status = 200
                  /\ StateProof_from_body(Unwrap(resp[r]).body).ok
                  /\ DOMAIN Envelope(r) = {"domain", "root", "payload", "proof"}
                  /\ from_slice(Envelope(r).proof).ok
               \/ /\ Unwrap(resp[r]).status \in {400, 500}
                  /\ Unwrap(resp[r]).body.status = Unwrap(resp[r]).status

\* C5: a request with key "" and the same request with key omitted or null
\* are normalized to the same query with no key: same backend operation,
\* same arguments, and, for the same backend result, the same response.
KeyAbsentForms == {JMissing, JNull, JStr("")}

SameButKey(b1, b2) == [b1 EXCEPT !.key = JMissing] = [b2 EXCEPT !.key = JMissing]

C5_EmptyKeyIsAbsent ==
    \A r1, r2 \in Reqs :
        (/\ IsSome(raw[r1]) /\ IsSome(raw[r2])
         /\ Unwrap(raw[r1]).key \in KeyAbsentForms
         /\ Unwrap(raw[r2]).key \in KeyAbsentForms
         /\ SameButKey(Unwrap(raw[r1]), Unwrap(raw[r2]))) =>
            /\ (Past(r1) /\ Past(r2)) =>
                /\ query[r1] = query[r2]
                /\ call[r1] = call[r2]
                /\ IsSome(query[r1]) => Unwrap(query[r1]).key = None
                /\ IsSome(call[r1]) => Unwrap(call[r1]).op = "get_account_proof"
            /\ (st[r1] = st[r2] /\ bres[r1] = bres[r2]) => resp[r1] = resp[r2]

C5_Witness ==
    \E r1, r2 \in Reqs :
        /\ Is200(r1) /\ Is200(r2)
        /\ Unwrap(raw[r1]).key = JStr("")
        /\ Unwrap(raw[r2]).key = JMissing
        /\ SameButKey(Unwrap(raw[r1]), Unwrap(raw[r2]))
        /\ bres[r1] = bres[r2]
        /\ ProofTag(r1) = ProofTag(r2)

\* C6: every body that fails validation (malformed JSON, a missing required
\* field, a type mismatch, a height that is not an unsigned integer) is
\* answered with 400 and {status:400, error:<parse failure>}, never with
\* 500 or 200, and the backend is not called for it.
FailsValidation(b) ==
    \/ b.kind # "Object"
    \/ b.address.t # "str"
    \/ b.ethereum_url.t # "str"
    \/ b.height.t # "num"
    \/ (b.height.t = "num" /\ b.height.n < 0)
    \/ b.key.t \notin {"missing", "null", "str"}

C6_InvalidIs400 ==
    \A r \in Reqs :
        (Past(r) /\ FailsValidation(Unwrap(raw[r]))) =>
            /\ IsSome(resp[r])
            /\ Unwrap(resp[r]).status = 400
            /\ Unwrap(resp[r]).body.status = 400
            /\ Unwrap(resp[r]).body.error[1] = "Invalid request format: "
            /\ Len(Unwrap(resp[r]).body.error) > 1
            /\ ncalls[r] = 0

C6_Witness ==
    \E r \in Reqs :
        /\ IsSome(resp[r])
        /\ Unwrap(raw[r]).height = JStr("not-a-number")
        /\ Unwrap(resp[r]).status = 400

\* C7: no retry: the backend is invoked at most once per request, a request
\* in an error state or in Responding makes no further transition, and a
\* failed backend call is neither issued again nor followed by a 200.
C7_NoRetry ==
    [][\A r \in Reqs :
        /\ ncalls[r]' <= 1
        /\ st[r] \in Terminal =>
            /\ st[r]' = st[r] /\ resp[r]' = resp[r] /\ ncalls[r]' = ncalls[r]
            /\ bres[r]' = bres[r] /\ ser[r]' = ser[r] /\ call[r]' = call[r]
        /\ (IsSome(bres[r]') /\ ~Unwrap(bres[r]').ok) =>
            /\ st[r]' \in Terminal
            /\ ncalls[r]' = 1
            /\ ~(IsSome(resp[r]') /\ Unwrap(resp[r]').status = 200)]_vars

C7_Witness ==
    \E r \in Reqs :
        /\ IsSome(bres[r]) /\ ~Unwrap(bres[r]).ok
        /\ st[r] = "BackendError"
        /\ ncalls[r] = 1

\* C8: the stages occur in the order Validating, Fetching, Serializing,
\* Responding: the backend is invoked only after validation succeeded and
\* never for a request answered with 400, serialization starts only after
\* the backend call returned successfully, and 200 is sent only after
\* serialization succeeded.
Rank(s) ==
    CASE s = "Idle" -> 0
      [] s = "Validating" -> 1
      [] s \in {"Invalid", "Fetching"} -> 2
      [] s \in {"BackendError", "Panicked", "Fetched"} -> 3
      [] s \in {"SerializeError", "Serialized"} -> 4
      [] s = "Responding" -> 5

StagesInOrder(r) ==
    /\ ncalls[r] > 0 => (IsSome(raw[r]) /\ ~FailsValidation(Unwrap(raw[r])) /\ IsSome(query[r]))
    /\ (IsSome(resp[r]) /\ Unwrap(resp[r]).status = 400) => (ncalls[r] = 0 /\ bres[r] = None)
    /\ IsSome(bres[r]) => ncalls[r] > 0
    /\ IsSome(ser[r]) => (IsSome(bres[r]) /\ Unwrap(bres[r]).ok)
    /\ Is200(r) => (IsSome(ser[r]) /\ Unwrap(ser[r]).ok)

C8_StageOrder ==
    [][\A r \in Reqs :
        /\ StagesInOrder(r)'
        /\ st[r]' # st[r] => Rank(st[r]') > Rank(st[r])]_vars

C8_Witness ==
    \E r \in Reqs :
        /\ Is200(r)
        /\ st[r] = "Responding"
        /\ Unwrap(ser[r]).ok /\ Unwrap(bres[r]).ok /\ ncalls[r] = 1

\* C9: in every successful response, for both variants, domain is
\* "ethereum", root is 32 zero bytes, payload is empty, and proof is the
\* serialization of exactly one proof variant, the one built from this
\* request's backend result.
C9_Envelope ==
    \A r \in Reqs :
        Is200(r) =>
            LET sp == Envelope(r)
                pv == from_slice(sp.proof)
            IN /\ StateProof_from_body(Unwrap(resp[r]).body).ok
               /\ sp.domain = "ethereum"
               /\ DOMAIN sp.root = 1..32
               /\ \A i \in DOMAIN sp.root : sp.root[i] = 0
               /\ sp.payload = <<>>
               /\ pv.ok
               /\ pv.val.tag \in {"Account", "Simple"}
               /\ pv.val.data.d = Unwrap(bres[r]).val.d
               /\ pv.val.tag = "Account" <=> Unwrap(bres[r]).val.ty = "EthereumAccountProof"
               /\ pv.val.tag = "Simple" <=> Unwrap(bres[r]).val.ty = "EthereumCombinedProof"

C9_Witness ==
    /\ \E r \in Reqs : Is200(r) /\ ProofTag(r) = "Account" /\ Unwrap(bres[r]).val.d = "p1"
    /\ \E r \in Reqs : Is200(r) /\ ProofTag(r) = "Simple" /\ Unwrap(bres[r]).val.d = "p2"

\* C10: requests in flight together are independent: a step touches the
\* state of one request only, the response is written to the connection of
\* the request whose handler ran, every request calls the backend through a
\* client built from its own ethereum_url, and the response is a function
\* of the request's own body and its own backend result.
Touched(r) ==
    \/ st[r]' # st[r] \/ raw[r]' # raw[r] \/ query[r]' # query[r]
    \/ call[r]' # call[r] \/ ncalls[r]' # ncalls[r] \/ bres[r]' # bres[r]
    \/ ser[r]' # ser[r] \/ resp[r]' # resp[r]

OwnStateOnly(r) ==
    /\ IsSome(call[r]) =>
        Unwrap(call[r]).rpc_url = Unwrap(raw[r]).ethereum_url.s
    /\ \A r2 \in Reqs :
        (/\ st[r] \in Terminal /\ st[r2] \in Terminal
         /\ raw[r] = raw[r2] /\ bres[r] = bres[r2]) => resp[r] = resp[r2]

C10_Independent ==
    [][\A r \in Reqs :
        /\ OwnStateOnly(r)'
        /\ Touched(r) => (st[r]' # st[r] /\ \A r2 \in Reqs \ {r} : ~Touched(r2))]_vars

C10_Witness ==
    \E r1, r2 \in Reqs :
        /\ r1 # r2
        /\ Is200(r1) /\ st[r2] = "Fetching"
        /\ Unwrap(call[r1]).rpc_url # Unwrap(call[r2]).rpc_url

\* C11: a timeout on the backend call makes every received request reach a
\* terminal state (a 200, 400 or 500 response) even when the node never
\* answers: no request stays in Fetching for ever.
C11_EventuallyTerminal ==
    \A r \in Reqs : (st[r] = "Validating") ~> (st[r] \in Terminal)

\* C12: the message of every error response identifies the stage that
\* failed: a validation failure, a backend failure and a serialization
\* failure each get a message that tells them apart, on the account path
\* and on the combined path.
FailedStage(r) ==
    IF Past(r) /\ FailsValidation(Unwrap(raw[r])) THEN "validation"
    ELSE IF IsSome(bres[r]) /\ ~Unwrap(bres[r]).ok THEN "backend"
    ELSE IF IsSome(ser[r]) /\ ~Unwrap(ser[r]).ok THEN "serialization"
    ELSE "none"

\* The stage a reader of the message can tell from its text.
MessageStage(msg) ==
    IF msg[1] = "Invalid request format: " THEN "validation"
    ELSE IF msg[1] # "Error getting state proof: " THEN "none"
    ELSE IF Len(msg) >= 2 /\ msg[2] = "Failed to get storage proof: " THEN "backend"
    ELSE "serialization"

C12_MessageNamesStage ==
    \A r \in Reqs :
        FailedStage(r) # "none" =>
            /\ IsSome(resp[r])
            /\ Unwrap(resp[r]).status \in {400, 500}
            /\ MessageStage(Unwrap(resp[r]).body.error) = FailedStage(r)

\* C13: no error response body contains content of the request's
\* ethereum_url: the message does not name the URL, and two failing
\* requests that differ only in ethereum_url and meet the same kind of
\* failure get identical error bodies.
IsError(r) == IsSome(resp[r]) /\ Unwrap(resp[r]).status # 200

SameButUrl(b1, b2) ==
    [b1 EXCEPT !.ethereum_url = JMissing] = [b2 EXCEPT !.ethereum_url = JMissing]

BackendErrorKind(r) ==
    IF IsSome(bres[r]) /\ ~Unwrap(bres[r]).ok
    THEN IF Unwrap(bres[r]).err \in BackendErrors THEN "rpc" ELSE "transport"
    ELSE "none"

C13_NoUrlInErrors ==
    /\ \A r \in Reqs :
        (IsError(r) /\ Unwrap(raw[r]).ethereum_url.t = "str") =>
            \A i \in DOMAIN Unwrap(resp[r]).body.error :
                Unwrap(resp[r]).body.error[i] # TransportError(Unwrap(raw[r]).ethereum_url.s)
    /\ \A r1, r2 \in Reqs :
        (/\ IsError(r1) /\ IsError(r2)
         /\ SameButUrl(Unwrap(raw[r1]), Unwrap(raw[r2]))
         /\ st[r1] = st[r2]
         /\ BackendErrorKind(r1) = BackendErrorKind(r2)) =>
            Unwrap(resp[r1]).body = Unwrap(resp[r2]).body

C16_CombinedBackendFailure ==
    \A r \in Reqs :
        (/\ IsSome(bres[r]) /\ ~Unwrap(bres[r]).ok
         /\ IsSome(Unwrap(query[r]).key)) =>
            /\ Unwrap(call[r]).op = "get_account_and_storage_proof"
            /\ ser[r] = None
            /\ IsSome(resp[r])
            /\ Unwrap(resp[r]).status = 500
            /\ Unwrap(resp[r]).body.status = 500
            /\ Unwrap(resp[r]).body.error =
                <<"Error getting state proof: ", "Failed to get storage proof: ",
                  Unwrap(bres[r]).err>>

C16_Witness ==
    \E r \in Reqs :
        /\ st[r] = "BackendError"
        /\ IsSome(Unwrap(query[r]).key)
        /\ Unwrap(bres[r]).err = "rpc failed"
        /\ Unwrap(resp[r]).status = 500

\* C17: a request suspended in Fetching holds no lock and no shared
\* resource: while it awaits its backend call, every other request can
\* take the next step of its own stage (be received, validated, have its
\* backend call answered, be serialized, be answered).
CanStep(r) ==
    CASE st[r] = "Idle" -> ENABLED Receive(r)
      [] st[r] = "Validating" -> ENABLED (HandleInvalid(r) \/ HandleValid(r))
      [] st[r] = "Fetching" -> ENABLED BackendReturn(r)
      [] st[r] = "Fetched" -> ENABLED Serialize(r)
      [] st[r] = "Serialized" -> ENABLED Respond(r)
      [] OTHER -> TRUE

C17_FetchingBlocksNobody ==
    \A r1, r2 \in Reqs :
        (r1 # r2 /\ st[r1] = "Fetching") => CanStep(r2)

C17_Witness ==
    \E r1, r2 \in Reqs :
        /\ r1 # r2
        /\ st[r1] = "Fetching"
        /\ st[r2] = "Validating"
        /\ ~FailsValidation(Unwrap(raw[r2]))
        /\ ENABLED HandleValid(r2)

\* C18: validation looks at the JSON shape and types only: every body with
\* a string address, a string ethereum_url, a u64 height and a key that is
\* absent, null or a string is accepted (also when the address or the key
\* is not hex), reaches Fetching, and the backend receives exactly the
\* request's address, height and non-empty key, unmodified.
ShapeOK(b) ==
    /\ b.kind = "Object"
    /\ b.address.t = "str"
    /\ b.ethereum_url.t = "str"
    /\ b.height.t = "num" /\ b.height.n >= 0
    /\ b.key.t \in {"missing", "null", "str"}

C18_ShapeOnly ==
    \A r \in Reqs :
        (Past(r) /\ ShapeOK(Unwrap(raw[r]))) =>
            LET b == Unwrap(raw[r])
            IN /\ st[r] # "Invalid"
               /\ IsSome(query[r]) /\ IsSome(call[r])
               /\ ncalls[r] = 1
               /\ Unwrap(call[r]).rpc_url = b.ethereum_url.s
               /\ Unwrap(call[r]).args =
                    (IF b.key.t = "str" /\ b.key.s # ""
                     THEN <<b.key.s, b.address.s, b.height.n>>
                     ELSE <<b.address.s, b.height.n>>)

C18_Witness ==
    \E r \in Reqs :
        /\ st[r] = "Fetching"
        /\ Unwrap(raw[r]).address = JStr("not-hex")
        /\ Unwrap(call[r]).args = <<"slot", "not-hex", 7>>

====
